---- MODULE Spec2Model ----
(***************************************************************************)
(* Model of candidate_solution.py: the cleaning run clean_database over    *)
(* the four entity tables and the association table, statement by          *)
(* statement, inside one sqlite3 transaction.                              *)
(*                                                                         *)
(* A name is a sequence of one-character strings.  NULL is the id 0.       *)
(***************************************************************************)
EXTENDS Integers, Sequences, FiniteSets, TLC

\* ------------------------------------------------------------------------
\* Characters: what re, str.lower, str.capitalize and LOWER() see
\* ------------------------------------------------------------------------

LowerLetters ==
    << "a", "b", "c", "d", "e", "f", "g", "h", "i", "j", "k", "l", "m",
       "n", "o", "p", "q", "r", "s", "t", "u", "v", "w", "x", "y", "z" >>

UpperLetters ==
    << "A", "B", "C", "D", "E", "F", "G", "H", "I", "J", "K", "L", "M",
       "N", "O", "P", "Q", "R", "S", "T", "U", "V", "W", "X", "Y", "Z" >>

Digits == << "0", "1", "2", "3", "4", "5", "6", "7", "8", "9" >>

\* Letters outside ASCII, each one character, written as its code point:
\* the sharp s, the n preceded by an apostrophe, and the modifier letter
\* apostrophe. str.lower leaves the three alone.
OtherLetters == << "U+00DF", "U+0149", "U+02BC" >>

\* The characters in code point order: " " < "-" < digits < upper < "_" < lower
\* < the letters outside ASCII.
CodePoints ==
    << " ", "-" >> \o Digits \o UpperLetters \o << "_" >> \o LowerLetters \o OtherLetters

Range(f) == { f[i] : i \in DOMAIN f }

IndexIn(seq, c) == CHOOSE i \in DOMAIN seq : seq[i] = c

LowerSet == Range(LowerLetters)

UpperSet == Range(UpperLetters)

DigitSet == Range(Digits)

IsLowerChar(c) == c \in LowerSet

IsUpperChar(c) == c \in UpperSet

\* [a-zA-Z0-9]
IsAlnumChar(c) == IsLowerChar(c) \/ IsUpperChar(c) \/ c \in DigitSet

OtherSet == { "U+00DF", "U+0149", "U+02BC" }

\* \w of re on str: [a-zA-Z0-9_] and the letters outside ASCII
IsWordChar(c) == IsAlnumChar(c) \/ c = "_" \/ c \in OtherSet

LowerChar(c) == IF IsUpperChar(c) THEN LowerLetters[IndexIn(UpperLetters, c)] ELSE c

UpperChar(c) == IF IsLowerChar(c) THEN UpperLetters[IndexIn(LowerLetters, c)] ELSE c

Ord(c) == IndexIn(CodePoints, c)

\* str.lower() and SQLite's LOWER()
LowerStr(s) == [i \in 1..Len(s) |-> LowerChar(s[i])]

\* Python's < on str: lexicographic by code point
RECURSIVE StrLess(_, _)
StrLess(a, b) ==
    IF a = << >> THEN b # << >>
    ELSE IF b = << >> THEN FALSE
    ELSE IF Head(a) # Head(b) THEN Ord(Head(a)) < Ord(Head(b))
    ELSE StrLess(Tail(a), Tail(b))

\* sorted(list(names)) of line 87
RECURSIVE Sorted(_)
Sorted(S) ==
    IF S = {} THEN << >>
    ELSE LET m == CHOOSE x \in S : \A y \in S \ {x} : StrLess(x, y)
         IN  << m >> \o Sorted(S \ {m})

\* ------------------------------------------------------------------------
\* Normalizer
\* ------------------------------------------------------------------------

\* text.replace('-', ' ')
ReplaceHyphens(text) == [i \in 1..Len(text) |-> IF text[i] = "-" THEN " " ELSE text[i]]

\* text.split(' '): the words between single spaces, empty words included
RECURSIVE SplitOnSpace(_)
SplitOnSpace(text) ==
    IF \A i \in 1..Len(text) : text[i] # " " THEN << text >>
    ELSE LET k == CHOOSE i \in 1..Len(text) :
                      text[i] = " " /\ \A j \in 1..(i - 1) : text[j] # " "
         IN  << SubSeq(text, 1, k - 1) >> \o SplitOnSpace(SubSeq(text, k + 1, Len(text)))

\* The title case of a character, which for two of the letters outside
\* ASCII is two characters
TitleChars(c) ==
    IF c = "U+00DF" THEN << "S", "s" >>
    ELSE IF c = "U+0149" THEN << "U+02BC", "N" >>
    ELSE << UpperChar(c) >>

\* word.capitalize(): first character title case, the rest lower case
Capitalize(word) ==
    IF word = << >> THEN word
    ELSE TitleChars(word[1]) \o [i \in 1..(Len(word) - 1) |-> LowerChar(word[i + 1])]

\* ' '.join(words)
RECURSIVE JoinWithSpace(_)
JoinWithSpace(words) ==
    IF Len(words) = 0 THEN << >>
    ELSE IF Len(words) = 1 THEN words[1]
    ELSE words[1] \o << " " >> \o JoinWithSpace(Tail(words))

to_title_case(text) ==
    IF text = << >> THEN text
    ELSE LET words == SplitOnSpace(ReplaceHyphens(text))
         IN  JoinWithSpace([i \in 1..Len(words) |-> Capitalize(words[i])])

normalize_string(s) ==
    IF s = << >> THEN << >>
    ELSE LowerStr(SelectSeq(s, IsAlnumChar))

\* ------------------------------------------------------------------------
\* Edit distance: the row-by-row dynamic program of levenshtein_distance
\* ------------------------------------------------------------------------

Min2(a, b) == IF a < b THEN a ELSE b

\* Faulty variant of the minimum: the substitution is left out
Min3OfFirstTwo(a, b, c) == Min2(a, b)

Min3(a, b, c) == Min2(a, Min2(b, c))

\* The inner loop over s2: current_row holds i + 1 and one entry per
\* character of s2 already visited, so the next character is the j-th with
\* j = Len(current_row); the row is complete at the length of previous_row.
RECURSIVE LevRow(_, _, _, _)
LevRow(previous_row, current_row, c1, s2) ==
    IF Len(current_row) = Len(previous_row) THEN current_row
    ELSE LET j             == Len(current_row)
             insertions    == previous_row[j + 1] + 1
             deletions     == current_row[j] + 1
             substitutions == previous_row[j] + (IF c1 # s2[j] THEN 1 ELSE 0)
         IN  LevRow(previous_row,
                    Append(current_row, Min3(insertions, deletions, substitutions)),
                    c1, s2)

\* The outer loop over s1.  A row starts with the number of characters of s1
\* it accounts for (range(...) starts with 0, current_row with i + 1), so the
\* next character is the i-th with i = previous_row[1] + 1.
RECURSIVE LevRows(_, _, _)
LevRows(previous_row, s1, s2) ==
    IF previous_row[1] = Len(s1) THEN previous_row
    ELSE LET i == previous_row[1] + 1
         IN  LevRows(LevRow(previous_row, << i >>, s1[i], s2), s1, s2)

RECURSIVE levenshtein_distance(_, _)
levenshtein_distance(s1, s2) ==
    IF Len(s1) < Len(s2) THEN levenshtein_distance(s2, s1)
    ELSE IF Len(s2) = 0 THEN Len(s1)
    ELSE LET last == LevRows([j \in 1..(Len(s2) + 1) |-> j - 1], s1, s2)
         IN  last[Len(last)]

\* ------------------------------------------------------------------------
\* Reference data: valid_map, original_valid_set, tables_meta, fk_relationships
\* ------------------------------------------------------------------------

\* tables_meta in dict order
Tables == << "pokemon", "types", "abilities", "trainers" >>

TableSet == Range(Tables)

\* The distance threshold every entry of tables_meta carries
Threshold == 2

\* (Table_With_FK, FK_Column_Name, Table_Referenced_By_FK), in list order
fk_relationships ==
    << [tbl |-> "pokemon", col |-> "type1_id", ref |-> "types"],
       [tbl |-> "pokemon", col |-> "type2_id", ref |-> "types"],
       [tbl |-> "trainer_pokemon_abilities", col |-> "pokemon_id", ref |-> "pokemon"],
       [tbl |-> "trainer_pokemon_abilities", col |-> "trainer_id", ref |-> "trainers"],
       [tbl |-> "trainer_pokemon_abilities", col |-> "ability_id", ref |-> "abilities"] >>

EdgeIds == DOMAIN fk_relationships

NULL == 0

\* A dict as the sequence of its items in insertion order: assigning to a key
\* that is present replaces the value and keeps the position.
DictPut(d, k, v) ==
    IF \E i \in DOMAIN d : d[i].key = k
    THEN [i \in DOMAIN d |-> IF d[i].key = k THEN [key |-> k, display |-> v] ELSE d[i]]
    ELSE Append(d, [key |-> k, display |-> v])

DictKeys(d) == { d[i].key : i \in DOMAIN d }

DictGet(d, k) == d[CHOOSE i \in DOMAIN d : d[i].key = k].display

\* {normalize_string(name): to_title_case(name) for name in raw}
RECURSIVE ValidMapFrom(_, _)
ValidMapFrom(raw, d) ==
    IF raw = << >> THEN d
    ELSE ValidMapFrom(Tail(raw), DictPut(d, normalize_string(Head(raw)), to_title_case(Head(raw))))

ValidMap(raw) == ValidMapFrom(raw, << >>)

\* Faulty variant of the validity set: the names as the API spells them
OriginalValidSetAsFetched(raw) == Range(raw)

\* {to_title_case(name) for name in raw}
OriginalValidSet(raw) == { to_title_case(raw[i]) : i \in DOMAIN raw }

TablesMeta(rawByTable) ==
    [tt \in TableSet |->
        [valid_map          |-> ValidMap(rawByTable[tt]),
         original_valid_set |-> OriginalValidSet(rawByTable[tt]),
         threshold          |-> Threshold]]

\* ------------------------------------------------------------------------
\* Step 2, per row: junk test and proposed name
\* ------------------------------------------------------------------------

\* Faulty variant of the junk test: without junk_pattern_global
IsJunkBlankOnly(name) ==
    \/ name = << >>
    \/ \A i \in DOMAIN name : name[i] = " "

\* not name, or not name.strip(), or junk_pattern_global.match(name):
\* ^\W*$ (no word character) or ^\s*$ (only white space)
IsJunk(name) ==
    \/ name = << >>
    \/ \A i \in DOMAIN name : name[i] = " "
    \/ \A i \in DOMAIN name : ~IsWordChar(name[i])

\* min_distance is float('inf') (inf = TRUE) or an integer d.
Infinite == [inf |-> TRUE, d |-> 0]

Finite(n) == [inf |-> FALSE, d |-> n]

\* dist < min_distance
DistBelow(dist, m) == m.inf \/ dist < m.d

\* dist == min_distance
DistEquals(dist, m) == ~m.inf /\ dist = m.d

\* Faulty variant of the threshold test: min_distance >= threshold
DistAtLeast(m, threshold) == m.inf \/ m.d >= threshold

\* min_distance > threshold
DistAbove(m, threshold) == m.inf \/ m.d > threshold

\* Faulty variant of the iteration: no tie-break, the first entry at the
\* minimum distance stays
ScanStepKeepsFirst(st, key, item) ==
    LET dist == levenshtein_distance(key, item.key)
    IN  IF DistBelow(dist, st.min_distance)
        THEN [min_distance |-> Finite(dist), proposed |-> item.display]
        ELSE st

\* One iteration of the loop over valid_map.items()
ScanStep(st, key, item) ==
    LET dist == levenshtein_distance(key, item.key)
    IN  IF DistBelow(dist, st.min_distance)
        THEN [min_distance |-> Finite(dist), proposed |-> item.display]
        ELSE IF DistEquals(dist, st.min_distance)
                /\ Len(item.key) < Len(normalize_string(st.proposed))
        THEN [min_distance |-> st.min_distance, proposed |-> item.display]
        ELSE st

RECURSIVE FuzzyScan(_, _, _, _)
FuzzyScan(st, key, valid_map, i) ==
    IF i > Len(valid_map) THEN st
    ELSE FuzzyScan(ScanStep(st, key, valid_map[i]), key, valid_map, i + 1)

\* Faulty variant of the fallback: the stored name is kept as it is
AcceptFuzzyKeepsName(st, current_name_db, threshold) ==
    IF DistAbove(st.min_distance, threshold) THEN current_name_db
    ELSE st.proposed

\* min_distance > threshold: fall back to the title-cased stored name
AcceptFuzzy(st, current_name_db, threshold) ==
    IF DistAbove(st.min_distance, threshold) THEN to_title_case(current_name_db)
    ELSE st.proposed

\* Faulty variant of the proposal: the threshold test is applied to an exact
\* match too, with min_distance as it was set before the match
ProposedNameThresholdAlways(current_name_db, valid_map, threshold) ==
    LET key == normalize_string(current_name_db)
        st  == [min_distance |-> Infinite, proposed |-> to_title_case(current_name_db)]
    IN  IF key \in DictKeys(valid_map)
        THEN AcceptFuzzy([st EXCEPT !.proposed = DictGet(valid_map, key)], current_name_db, threshold)
        ELSE AcceptFuzzy(FuzzyScan(st, key, valid_map, 1), current_name_db, threshold)

\* proposed_new_name for a row that is not junk
ProposedName(current_name_db, valid_map, threshold) ==
    LET key == normalize_string(current_name_db)
    IN  IF key \in DictKeys(valid_map) THEN DictGet(valid_map, key)
        ELSE AcceptFuzzy(FuzzyScan([min_distance |-> Infinite,
                                    proposed |-> to_title_case(current_name_db)],
                                   key, valid_map, 1),
                         current_name_db, threshold)

\* The number of calls of levenshtein_distance for a row that is not junk:
\* the loop over valid_map.items() is in the else branch of the exact match
DistanceCalls(current_name_db, valid_map) ==
    IF normalize_string(current_name_db) \in DictKeys(valid_map) THEN 0
    ELSE Len(valid_map)

\* ------------------------------------------------------------------------
\* The store: entity tables (id -> name), the association table's row ids
\* and one function per foreign key column (dependent row id -> value)
\* ------------------------------------------------------------------------

Restrict(f, S) == [r \in (DOMAIN f) \cap S |-> f[r]]

\* The ids of S in ascending order (the order the SELECTs return rows in)
RECURSIVE IdsAsc(_)
IdsAsc(S) ==
    IF S = {} THEN << >>
    ELSE LET m == CHOOSE i \in S : \A j \in S : i <= j
         IN  << m >> \o IdsAsc(S \ {m})

\* Faulty variant of the nullifying UPDATE: the association rows that
\* reference the row are deleted instead (a cascading delete)
SqlNullifyByDelete(d, k, deleted_id) ==
    IF fk_relationships[k].tbl = "pokemon"
    THEN [d EXCEPT !.fk[k] = [r \in DOMAIN @ |-> IF @[r] = deleted_id THEN NULL ELSE @[r]]]
    ELSE LET gone == { r \in DOMAIN d.fk[k] : d.fk[k][r] = deleted_id }
         IN  [d EXCEPT !.assoc = @ \ gone,
                       !.fk = [e \in EdgeIds |->
                                 IF fk_relationships[e].tbl = "pokemon" THEN @[e]
                                 ELSE [r \in (DOMAIN @[e]) \ gone |-> @[e][r]]]]

\* UPDATE {fk_table} SET {fk_column} = NULL WHERE {fk_column} = ?
SqlNullify(d, k, deleted_id) ==
    [d EXCEPT !.fk[k] = [r \in DOMAIN @ |-> IF @[r] = deleted_id THEN NULL ELSE @[r]]]

\* UPDATE {fk_table} SET {fk_column} = ? WHERE {fk_column} IN (...)
SqlRemap(d, k, canonical_id, duplicate_ids) ==
    [d EXCEPT !.fk[k] = [r \in DOMAIN @ |-> IF @[r] \in duplicate_ids THEN canonical_id ELSE @[r]]]

\* DELETE FROM {table_name} WHERE id IN (...): the rows go, with their columns
SqlDelete(d, tt, ids) ==
    [d EXCEPT !.rows[tt] = Restrict(@, (DOMAIN @) \ ids),
              !.fk = [k \in EdgeIds |->
                        IF fk_relationships[k].tbl = tt
                        THEN Restrict(@[k], (DOMAIN @[k]) \ ids)
                        ELSE @[k]]]

\* Faulty variant of the renaming UPDATE: the row is deleted and inserted
\* again with the new name, under the next free id
SqlUpdateNameByInsert(d, tt, id, new_name) ==
    LET top == CHOOSE i \in DOMAIN d.rows[tt] : \A j \in DOMAIN d.rows[tt] : j <= i
    IN  [d EXCEPT !.rows[tt] = Restrict(@, (DOMAIN @) \ {id}) @@ ((top + 1) :> new_name)]

\* UPDATE {table_name} SET name = ? WHERE id = ?
SqlUpdateName(d, tt, id, new_name) ==
    [d EXCEPT !.rows[tt][id] = new_name]

\* Step 2: the rows appended to deletions_from_step2
Step2Deletions(d, tt) ==
    SelectSeq(IdsAsc(DOMAIN d.rows[tt]), LAMBDA id : IsJunk(d.rows[tt][id]))

\* Step 2: the (row_id, proposed_new_name) appended to updates
Step2Updates(d, tt, m) ==
    LET kept == SelectSeq(IdsAsc(DOMAIN d.rows[tt]),
                          LAMBDA id : /\ ~IsJunk(d.rows[tt][id])
                                      /\ ProposedName(d.rows[tt][id], m.valid_map, m.threshold)
                                            # d.rows[tt][id])
    IN  [i \in DOMAIN kept |->
            [id |-> kept[i],
             name |-> ProposedName(d.rows[tt][kept[i]], m.valid_map, m.threshold)]]

\* Faulty variant of step 3: a category whose reference set is empty is
\* left alone
Step3DeletionsUnlessEmpty(d, tt, m) ==
    IF m.original_valid_set = {} THEN << >>
    ELSE SelectSeq(IdsAsc(DOMAIN d.rows[tt]),
                   LAMBDA id : d.rows[tt][id] \notin m.original_valid_set)

\* Faulty variant of step 3: only the first row found invalid is deleted
Step3DeletionsFirstOnly(d, tt, m) ==
    LET all == SelectSeq(IdsAsc(DOMAIN d.rows[tt]),
                         LAMBDA id : d.rows[tt][id] \notin m.original_valid_set)
    IN  IF all = << >> THEN all ELSE << all[1] >>

\* Step 3: ids_to_delete_step3
Step3Deletions(d, tt, m) ==
    SelectSeq(IdsAsc(DOMAIN d.rows[tt]), LAMBDA id : d.rows[tt][id] \notin m.original_valid_set)

\* GROUP BY LOWER(name)
GroupOf(d, tt, id) ==
    { j \in DOMAIN d.rows[tt] : LowerStr(d.rows[tt][j]) = LowerStr(d.rows[tt][id]) }

\* Faulty variant of the canonical id: MAX(id)
CanonicalIdMax(group) == CHOOSE i \in group : \A j \in group : i >= j

\* MIN(id) as canonical_id
CanonicalId(group) == CHOOSE i \in group : \A j \in group : i <= j

\* Faulty variant of step 4's SELECT: HAVING COUNT(*) > 2
DuplicatesInfoOverTwo(d, tt) ==
    LET canon == { id \in DOMAIN d.rows[tt] :
                     /\ Cardinality(GroupOf(d, tt, id)) > 2
                     /\ id = CanonicalId(GroupOf(d, tt, id)) }
        order == IdsAsc(canon)
    IN  [i \in DOMAIN order |->
            [canonical_id |-> order[i],
             remove |-> GroupOf(d, tt, order[i]) \ {order[i]}]]

\* Step 4: duplicates_info, one entry per group HAVING COUNT(*) > 1, with
\* duplicate_ids_to_remove already taken from GROUP_CONCAT(id)
DuplicatesInfo(d, tt) ==
    LET canon == { id \in DOMAIN d.rows[tt] :
                     /\ Cardinality(GroupOf(d, tt, id)) > 1
                     /\ id = CanonicalId(GroupOf(d, tt, id)) }
        order == IdsAsc(canon)
    IN  [i \in DOMAIN order |->
            [canonical_id |-> order[i],
             remove |-> GroupOf(d, tt, order[i]) \ {order[i]}]]

\* Faulty variant of the cascade's loop: it stops at the first edge found
EdgesToFirstOnly(tt) ==
    LET all == SelectSeq([k \in EdgeIds |-> k], LAMBDA k : fk_relationships[k].ref = tt)
    IN  IF all = << >> THEN all ELSE << all[1] >>

\* The edges of fk_relationships whose referenced table is tt, in list order
EdgesTo(tt) == SelectSeq([k \in EdgeIds |-> k], LAMBDA k : fk_relationships[k].ref = tt)

\* ------------------------------------------------------------------------
\* The world of the model: the reference service's pages, the stored
\* dataset before the first run, and the bounds
\* ------------------------------------------------------------------------

\* At most this many cells of the clean dataset are dirty before the first run
MaxDirt == 1

\* The categories fetched, in call order, by the table they serve
FetchOrder == << "pokemon", "types", "abilities" >>

\* The pages the listing endpoint answers with: results, and next (0 is null)
ApiPages ==
    [pokemon   |-> << [results |-> << << "m", "e", "w" >>, << "m", "u", "k" >> >>, next |-> 2],
                      [results |-> << << "h", "o", "-", "o", "h" >>, << "m", "e", "w" >> >>, next |-> 0] >>,
     types     |-> << [results |-> << << "f", "i", "r", "e" >>, << "i", "c", "e" >> >>, next |-> 0] >>,
     abilities |-> << [results |-> << << "b", "l", "a", "z", "e" >>, << "r", "u", "n", "-", "a", "w", "a", "y" >> >>, next |-> 0] >>]

\* raw_valid_trainer_names_list
StaticTrainers ==
    << << "A", "s", "h", " ", "K", "e", "t", "c", "h", "u", "m" >>,
       << "B", "r", "o", "c", "k" >>,
       << "G", "a", "r", "y", " ", "O", "a", "k" >>,
       << "P", "r", "o", "f", "e", "s", "s", "o", "r", " ", "O", "a", "k" >>,
       << "M", "i", "s", "t", "y" >> >>

\* The clean dataset: two rows per entity table, two association rows
CleanStore ==
    [rows   |-> [pokemon   |-> (1 :> << "M", "e", "w" >> @@ 2 :> << "H", "o", " ", "O", "h" >>),
                 types     |-> (1 :> << "F", "i", "r", "e" >> @@ 2 :> << "I", "c", "e" >>),
                 abilities |-> (1 :> << "B", "l", "a", "z", "e" >> @@ 2 :> << "R", "u", "n", " ", "A", "w", "a", "y" >>),
                 trainers  |-> (1 :> << "M", "i", "s", "t", "y" >> @@ 2 :> << "B", "r", "o", "c", "k" >>)],
     assoc  |-> {1, 2},
     fk     |-> << (1 :> 1 @@ 2 :> 1), (1 :> NULL @@ 2 :> 2),
                   (1 :> 1 @@ 2 :> 2), (1 :> 1 @@ 2 :> 2), (1 :> 1 @@ 2 :> 2) >>,
     absent |-> {}]

\* The dataset without a row
EmptyStore ==
    [rows   |-> [tt \in TableSet |-> << >>],
     assoc  |-> {},
     fk     |-> << << >>, << >>, << >>, << >>, << >> >>,
     absent |-> {}]

\* The names a dirty row may carry: a valid name in lower case (a duplicate
\* of row 1 in the making), a misspelling within the threshold, a name
\* beyond it, and junk (non-word characters, white space, the empty name)
DirtyNames ==
    [pokemon   |-> { << "m", "e", "w" >>, << "M", "e", "w", "w" >>, << "M", "e", "w", "t", "w", "o" >>, << "-", "-", "-" >> },
     types     |-> { << "f", "i", "r", "e" >>, << "F", "i", "r" >>, << "W", "a", "t", "e", "r" >>, << " ", " " >> },
     abilities |-> { << "b", "l", "a", "z", "e" >>, << "B", "l", "s", "e" >>, << "L", "e", "v", "i", "t", "a", "t", "e" >>, << >> },
     trainers  |-> { << "m", "i", "s", "t", "y" >>, << "M", "s", "t", "y" >>, << "G", "i", "o", "v", "a", "n", "n", "i" >>, << "-", "-", "-" >> }]

\* The values a dirty foreign key cell may carry: null, a row id, or the id
\* of no row (SQLite does not enforce foreign keys unless asked to)
DirtyKeys == {NULL, 1, 2, 3}

\* The datasets one dirty cell away from d: a row renamed, a foreign key
\* cell changed, the column type1_id or type2_id missing, or the association
\* table missing
Dirtied(d) ==
    UNION { { [d EXCEPT !.rows[tt][id] = n] : id \in DOMAIN d.rows[tt], n \in DirtyNames[tt] } :
            tt \in TableSet }
    \cup UNION { { [d EXCEPT !.fk[k][r] = v] : r \in DOMAIN d.fk[k], v \in DirtyKeys } :
                  k \in EdgeIds }
    \cup { [d EXCEPT !.fk[1] = << >>, !.absent = @ \cup {1}] }
    \cup { [d EXCEPT !.fk[2] = << >>, !.absent = @ \cup {2}] }
    \cup { [d EXCEPT !.fk[3] = << >>, !.fk[4] = << >>, !.fk[5] = << >>,
                     !.assoc = {}, !.absent = @ \cup {3, 4, 5}] }

RECURSIVE DirtyStores(_)
DirtyStores(n) ==
    IF n = 0 THEN {CleanStore}
    ELSE LET less == DirtyStores(n - 1)
         IN  less \cup UNION { Dirtied(d) : d \in less }

\* ------------------------------------------------------------------------
\* State
\* ------------------------------------------------------------------------

VARIABLES
    disk,       \* the dataset as committed
    db,         \* the dataset as the connection sees it (open transaction included)
    pc,         \* where clean_database stands
    rerun,      \* this run follows a run that committed
    fetchCat,   \* index in FetchOrder of the category being fetched
    url,        \* the page to request next
    names,      \* the set names of _fetch_all_pokeapi_resources
    requested,  \* history: the pages this call of it has requested and read
    raw,        \* table -> the raw_valid_*_names list
    meta,       \* tables_meta
    step,       \* the step (2, 3 or 4) the run is in
    tix,        \* index in Tables of the table being processed
    work,       \* the deletions, or the duplicate groups, still to apply
    updates,    \* the updates still to apply
    eix,        \* index in EdgesTo(table) of the statement the cascade is at
    pre,        \* history: the dataset when the run started
    p4,         \* history: the dataset when step 4 started
    prevRaw,    \* history: raw of the run before this one
    sqlError,   \* history: the sqlite3.Error a statement of this run raised:
                \* "none", "passed" (passed over by a cascade) or "fatal"
    lostWork,   \* history: the transaction held changes when it was rolled back
    failed,     \* history: the categories whose fetch of this run failed
    done,       \* history: the (step, table index) whose loop body this run has left
    dbFile,     \* the dataset file: "ok", "missing" or "unopenable"
    conn,       \* what connect_db returned (None before the call)
    request,    \* the endpoint call last answered
    response,   \* the answer to it
    calls,      \* the number of create_pokemon_record calls answered
    call,       \* the helper call last made on its own
    result      \* what it returned

vars == << disk, db, pc, rerun, fetchCat, url, names, requested, raw, meta, step, tix, work,
           updates, eix, pre, p4, prevRaw, sqlError, lostWork, failed, done,
           dbFile, conn, request, response, calls, call, result >>

fetchVars == << fetchCat, url, names, requested >>

loopVars == << step, tix, work, updates, eix >>

histVars == << pre, p4, prevRaw, lostWork >>

envVars == << dbFile, conn, calls, call, result >>

endpointVars == << request, response >>

NoRaw == [tt \in TableSet |-> << >>]

\* Python's None, for a connection
None == "None"

NoRequest == [endpoint |-> "none", arg |-> << >>]

NoResponse == [status |-> 0, body |-> {}]

NoCall == [fn |-> "none", args |-> << >>]

\* What every behaviour starts with, whatever it goes on to do
Fresh ==
    /\ db = disk
    /\ pc = "Idle"
    /\ rerun = FALSE
    /\ fetchCat = 1 /\ url = 1 /\ names = {} /\ requested = << >>
    /\ raw = NoRaw
    /\ meta = TablesMeta(NoRaw)
    /\ step = 2 /\ tix = 1 /\ work = << >> /\ updates = << >> /\ eix = 1
    /\ pre = disk /\ p4 = disk /\ prevRaw = NoRaw
    /\ sqlError = "none"
    /\ lostWork = FALSE
    /\ failed = {}
    /\ done = {}
    /\ conn = None
    /\ request = NoRequest /\ response = NoResponse
    /\ calls = 0
    /\ call = NoCall /\ result = 0

Init ==
    /\ disk \in DirtyStores(MaxDirt)
    /\ dbFile \in {"ok", "missing", "unopenable"}
    /\ Fresh

\* ------------------------------------------------------------------------
\* Control: where the loops of steps 2-4 go next
\* ------------------------------------------------------------------------

Pos(p, s, i, w, u) == [pc |-> p, step |-> s, tix |-> i, work |-> w, updates |-> u, eix |-> 1]

SelectPc(s) == IF s = 2 THEN "Step2Select" ELSE IF s = 3 THEN "Step3Select" ELSE "Step4Select"

\* Faulty variant of the loops: one loop over the tables whose body runs
\* steps 2, 3 and 4 on the table
AfterTablePipelined(s, i) ==
    IF s < 4 THEN Pos(SelectPc(s + 1), s + 1, i, << >>, << >>)
    ELSE IF i < Len(Tables) THEN Pos(SelectPc(2), 2, i + 1, << >>, << >>)
    ELSE Pos("Commit", s, i, << >>, << >>)

\* The table loop of a step is done with table i
AfterTable(s, i) ==
    IF i < Len(Tables) THEN Pos(SelectPc(s), s, i + 1, << >>, << >>)
    ELSE IF s < 4 THEN Pos(SelectPc(s + 1), s + 1, 1, << >>, << >>)
    ELSE Pos("Commit", s, i, << >>, << >>)

\* The deletion loop is done: the update loop (step 2), then the next table
AfterDeletes(s, i, upds) ==
    IF upds # << >> THEN Pos("Update", s, i, << >>, upds)
    ELSE AfterTable(s, i)

\* Faulty variant of the deletion loop: the DELETE is issued without the cascade
AfterSelectNoCascade(s, i, dels, upds) ==
    IF dels # << >> THEN Pos("Delete", s, i, dels, upds)
    ELSE AfterDeletes(s, i, upds)

\* The rows are read: the deletion loop first
AfterSelect(s, i, dels, upds) ==
    IF dels # << >> THEN Pos("Nullify", s, i, dels, upds)
    ELSE AfterDeletes(s, i, upds)

\* The groups are read: the remap cascade of the first group
AfterSelect4(i, groups) ==
    IF groups # << >> THEN Pos("Remap", 4, i, groups, << >>)
    ELSE AfterTable(4, i)

Goto(p) ==
    /\ pc' = p.pc
    /\ step' = p.step
    /\ tix' = p.tix
    /\ work' = p.work
    /\ updates' = p.updates
    /\ eix' = p.eix
    /\ done' = IF p.pc = "RolledBack" THEN {}
               ELSE IF p.pc = "Commit" \/ << p.step, p.tix >> # << step, tix >>
               THEN done \cup {<< step, tix >>}
               ELSE done

\* ------------------------------------------------------------------------
\* clean_database, one action per statement
\* ------------------------------------------------------------------------

\* conn.commit(): what the transaction holds becomes the committed dataset
Committed(d) == d

\* Faulty variant of the handler: no rollback, the transaction stays as it is
NotRolledBack(committed, d) == d

\* conn.rollback(): the connection sees the committed dataset again
RolledBack(committed, d) == committed

\* Faulty variant of connect_db: no os.path.exists test, so that
\* sqlite3.connect makes a new file where there was none
connect_db_creating(file) ==
    IF file = "unopenable" THEN None ELSE "connection"

\* connect_db: None when the file is missing or sqlite3.connect raises
connect_db(file) ==
    IF file = "missing" THEN None
    ELSE IF file = "unopenable" THEN None
    ELSE "connection"

\* temp_conn = connect_db()
Connect ==
    /\ pc = "Idle"
    /\ conn' = connect_db(dbFile)
    /\ pc' = "Connected"
    /\ UNCHANGED << disk, db, rerun, fetchVars, raw, meta, loopVars, histVars, sqlError,
                    failed, done, dbFile, request, response, calls, call, result >>

\* "if temp_conn:" is false, or clean_database(None): "if not conn: return"
StartWithoutConnection ==
    /\ pc = "Connected"
    /\ conn = None
    /\ pc' = "Returned"
    /\ UNCHANGED << disk, db, rerun, fetchVars, raw, meta, loopVars, histVars, sqlError,
                    failed, done, envVars, endpointVars >>

\* The call: conn is a connection, cursor = conn.cursor()
Start ==
    /\ (pc = "Connected" /\ conn # None) \/ (pc = "Committed" /\ ~rerun)
    /\ rerun' = (pc = "Committed")
    /\ pc' = "Pragma"
    /\ pre' = disk
    /\ p4' = disk
    /\ sqlError' = "none"
    /\ raw' = NoRaw
    /\ meta' = TablesMeta(NoRaw)
    /\ prevRaw' = raw
    /\ failed' = {}
    /\ done' = {}
    /\ request' = NoRequest /\ response' = NoResponse
    /\ UNCHANGED << disk, db, fetchVars, loopVars, lostWork, envVars >>

\* cursor.execute("PRAGMA foreign_keys = ON;")
Pragma ==
    /\ pc = "Pragma"
    /\ pc' = "Fetch"
    /\ fetchCat' = 1 /\ url' = 1 /\ names' = {} /\ requested' = << >>
    /\ UNCHANGED << disk, db, rerun, raw, meta, loopVars, histVars, sqlError, envVars, endpointVars, failed, done >>

\* _fetch_all_pokeapi_resources returns list_ for the category being fetched
FetchReturns(list_) ==
    /\ raw' = [raw EXCEPT ![FetchOrder[fetchCat]] = list_]
    /\ url' = 1
    /\ names' = {}
    /\ requested' = << >>
    /\ IF fetchCat < Len(FetchOrder)
       THEN fetchCat' = fetchCat + 1 /\ pc' = "Fetch"
       ELSE fetchCat' = 1 /\ pc' = "BuildMeta"

\* Faulty variant of the loop: data['next'] is not followed, the same page
\* is requested again
FetchPageAgain ==
    /\ pc = "Fetch"
    /\ names' = names \cup Range(ApiPages[FetchOrder[fetchCat]][url].results)
    /\ requested' = Append(requested, url)
    /\ UNCHANGED << pc, fetchCat, url, raw >>
    /\ UNCHANGED << disk, db, rerun, meta, loopVars, histVars, sqlError, envVars, endpointVars, failed, done >>

\* One pass of "while url": the request succeeds
FetchPage ==
    /\ pc = "Fetch"
    /\ LET page == ApiPages[FetchOrder[fetchCat]][url]
           got  == names \cup Range(page.results)
       IN  IF page.next # 0
           THEN /\ url' = page.next
                /\ names' = got
                /\ requested' = Append(requested, url)
                /\ UNCHANGED << pc, fetchCat, raw >>
           ELSE FetchReturns(Sorted(got))
    /\ UNCHANGED << disk, db, rerun, meta, loopVars, histVars, sqlError, envVars, endpointVars, failed, done >>

\* Faulty variant of the handler: the names of the pages already read are
\* returned
FetchFailsKeepingPages ==
    /\ pc = "Fetch"
    /\ FetchReturns(Sorted(names))
    /\ failed' = failed \cup {FetchOrder[fetchCat]}
    /\ UNCHANGED << disk, db, rerun, meta, loopVars, histVars, sqlError, envVars, endpointVars, done >>

\* One pass of "while url": requests.exceptions.RequestException, return []
FetchFails ==
    /\ pc = "Fetch"
    /\ FetchReturns(<< >>)
    /\ failed' = failed \cup {FetchOrder[fetchCat]}
    /\ UNCHANGED << disk, db, rerun, meta, loopVars, histVars, sqlError, envVars, endpointVars, done >>

\* Lines 158-192: the trainers' list, the maps, the sets and tables_meta
BuildMeta ==
    /\ pc = "BuildMeta"
    /\ raw' = [raw EXCEPT !["trainers"] = StaticTrainers]
    /\ meta' = TablesMeta(raw')
    /\ Goto(Pos("Step2Select", 2, 1, << >>, << >>))
    /\ UNCHANGED << disk, db, rerun, fetchVars, histVars, sqlError, envVars, endpointVars, failed >>

\* Step 2: SELECT id, name, and the loop over rows_to_process
Step2Select ==
    /\ pc = "Step2Select"
    /\ LET tt == Tables[tix]
       IN  Goto(AfterSelect(2, tix, Step2Deletions(db, tt), Step2Updates(db, tt, meta[tt])))
    /\ UNCHANGED << disk, db, rerun, fetchVars, raw, meta, histVars, sqlError, envVars, endpointVars, failed >>

\* Step 3: SELECT id, name, and the loop over items_to_check
Step3Select ==
    /\ pc = "Step3Select"
    /\ LET tt == Tables[tix]
       IN  Goto(AfterSelect(3, tix, Step3Deletions(db, tt, meta[tt]), << >>))
    /\ UNCHANGED << disk, db, rerun, fetchVars, raw, meta, histVars, sqlError, envVars, endpointVars, failed >>

\* Faulty variant of the cascade: "no such column" ends the loop over the
\* edges
NullifyStoppingAtMissing ==
    /\ pc = "Nullify"
    /\ LET tt    == Tables[tix]
           edges == EdgesTo(tt)
           k     == edges[eix]
       IN  IF k \in db.absent
           THEN /\ db' = db /\ sqlError' = "passed"
                /\ Goto(Pos("Delete", step, tix, work, updates))
           ELSE /\ db' = SqlNullify(db, k, Head(work)) /\ UNCHANGED sqlError
                /\ IF eix < Len(edges)
                   THEN eix' = eix + 1 /\ UNCHANGED << pc, step, tix, work, updates, done >>
                   ELSE Goto(Pos("Delete", step, tix, work, updates))
    /\ UNCHANGED << disk, rerun, fetchVars, raw, meta, histVars, envVars, endpointVars, failed >>

\* nullify_fks_referencing_id: the UPDATE of one edge whose referenced table
\* is the current one; "no such column" and "no such table" are passed over
Nullify ==
    /\ pc = "Nullify"
    /\ LET tt    == Tables[tix]
           edges == EdgesTo(tt)
           k     == edges[eix]
       IN  /\ IF k \in db.absent
              THEN db' = db /\ sqlError' = "passed"
              ELSE db' = SqlNullify(db, k, Head(work)) /\ UNCHANGED sqlError
           /\ IF eix < Len(edges)
              THEN eix' = eix + 1 /\ UNCHANGED << pc, step, tix, work, updates, done >>
              ELSE Goto(Pos("Delete", step, tix, work, updates))
    /\ UNCHANGED << disk, rerun, fetchVars, raw, meta, histVars, envVars, endpointVars, failed >>

\* DELETE FROM {table_name} WHERE id = ? (steps 2 and 3)
Delete ==
    /\ pc = "Delete"
    /\ db' = SqlDelete(db, Tables[tix], {Head(work)})
    /\ IF Tail(work) # << >>
       THEN Goto(Pos("Nullify", step, tix, Tail(work), updates))
       ELSE Goto(AfterDeletes(step, tix, updates))
    /\ UNCHANGED << disk, rerun, fetchVars, raw, meta, histVars, sqlError, envVars, endpointVars, failed >>

\* SELECT name ... WHERE id = ?, and the UPDATE when the stored name differs
Update ==
    /\ pc = "Update"
    /\ LET tt == Tables[tix]
           u  == Head(updates)
       IN  db' = IF u.id \in DOMAIN db.rows[tt] /\ db.rows[tt][u.id] # u.name
                 THEN SqlUpdateName(db, tt, u.id, u.name)
                 ELSE db
    /\ Goto(AfterDeletes(step, tix, Tail(updates)))
    /\ UNCHANGED << disk, rerun, fetchVars, raw, meta, histVars, sqlError, envVars, endpointVars, failed >>

\* Step 4: SELECT ... GROUP BY LOWER(name) HAVING COUNT(*) > 1
Step4Select ==
    /\ pc = "Step4Select"
    /\ p4' = IF tix = 1 THEN db ELSE p4
    /\ Goto(AfterSelect4(tix, DuplicatesInfo(db, Tables[tix])))
    /\ UNCHANGED << disk, db, rerun, fetchVars, raw, meta, pre, prevRaw, sqlError, lostWork, envVars, endpointVars, failed >>

\* Step 4: the remapping UPDATE of one edge whose referenced table is the
\* current one; "no such column" and "no such table" are passed over
Remap ==
    /\ pc = "Remap"
    /\ LET tt    == Tables[tix]
           edges == EdgesTo(tt)
           k     == edges[eix]
           g     == Head(work)
       IN  /\ IF k \in db.absent
              THEN db' = db /\ sqlError' = "passed"
              ELSE db' = SqlRemap(db, k, g.canonical_id, g.remove) /\ UNCHANGED sqlError
           /\ IF eix < Len(edges)
              THEN eix' = eix + 1 /\ UNCHANGED << pc, step, tix, work, updates, done >>
              ELSE Goto(Pos("DeleteDuplicates", step, tix, work, updates))
    /\ UNCHANGED << disk, rerun, fetchVars, raw, meta, histVars, envVars, endpointVars, failed >>

\* Step 4: DELETE FROM {table_name} WHERE id IN (...)
DeleteDuplicates ==
    /\ pc = "DeleteDuplicates"
    /\ db' = SqlDelete(db, Tables[tix], Head(work).remove)
    /\ IF Tail(work) # << >>
       THEN Goto(Pos("Remap", step, tix, Tail(work), updates))
       ELSE Goto(AfterTable(step, tix))
    /\ UNCHANGED << disk, rerun, fetchVars, raw, meta, histVars, sqlError, envVars, endpointVars, failed >>

\* conn.commit()
Commit ==
    /\ pc = "Commit"
    /\ disk' = Committed(db)
    /\ Goto(Pos("Committed", 2, 1, << >>, << >>))
    /\ UNCHANGED << db, rerun, fetchVars, raw, meta, histVars, sqlError, envVars, endpointVars, failed >>

\* The positions at which a statement is executed on the connection
StatementPcs ==
    { "Pragma", "Step2Select", "Step3Select", "Step4Select", "Nullify", "Delete",
      "Update", "Remap", "DeleteDuplicates", "Commit" }

\* except sqlite3.Error: a statement raises an error that is not passed
\* over; conn.rollback()
StorageError ==
    /\ pc \in StatementPcs
    /\ sqlError' = "fatal"
    /\ lostWork' = (db # disk)
    /\ db' = RolledBack(disk, db)
    /\ Goto(Pos("RolledBack", 2, 1, << >>, << >>))
    /\ p4' = disk
    /\ UNCHANGED << disk, rerun, fetchVars, raw, meta, pre, prevRaw, envVars, endpointVars, failed >>

\* The positions at which Python code of the run reads data it was given: a
\* page's payload (data['results'], data['next']), a stored name
\* (normalize_string, to_title_case)
PythonPcs == { "Fetch", "Step2Select" }

\* An exception that is no sqlite3.Error (KeyError, TypeError) leaves
\* clean_database: no handler, neither commit nor rollback
OtherError ==
    /\ pc \in PythonPcs
    /\ pc' = "Raised"
    /\ UNCHANGED << disk, db, rerun, fetchVars, raw, meta, loopVars, histVars, sqlError, envVars, endpointVars, failed, done >>

\* ------------------------------------------------------------------------
\* GET /pokemon/type/{type_name}, on the committed dataset
\* ------------------------------------------------------------------------

\* The type names asked for: in lower case, in upper case, unknown
TypeQueries ==
    { << "i", "c", "e" >>, << "F", "I", "R", "E" >>, << "R", "o", "c", "k" >> }

\* The rows of
\*   SELECT DISTINCT p.name FROM pokemon p
\*   JOIN types t1 ON p.type1_id = t1.id
\*   LEFT JOIN types t2 ON p.type2_id = t2.id
\*   WHERE LOWER(t1.name) = LOWER(?) OR (t2.id IS NOT NULL AND LOWER(t2.name) = LOWER(?))
\* as the set of the names selected
SelectByType(d, type_name) ==
    { d.rows["pokemon"][p] :
        p \in { q \in DOMAIN d.rows["pokemon"] :
                  \E t1 \in DOMAIN d.rows["types"] :
                      /\ d.fk[1][q] = t1
                      /\ \/ LowerStr(d.rows["types"][t1]) = LowerStr(type_name)
                         \/ \E t2 \in DOMAIN d.rows["types"] :
                                /\ d.fk[2][q] = t2
                                /\ LowerStr(d.rows["types"][t2]) = LowerStr(type_name) } }

\* get_pokemon_by_type: the names, or 500 for a sqlite3.Error (no such
\* column: p.type2_id)
get_pokemon_by_type(d, type_name) ==
    IF d.absent \cap {1, 2} # {} THEN [status |-> 500, body |-> {}]
    ELSE [status |-> 200, body |-> SelectByType(d, type_name)]

\* A request to the endpoint once the cleaning run has committed
GetPokemonByType ==
    /\ pc = "Committed"
    /\ \E type_name \in TypeQueries :
           /\ request' = [endpoint |-> "pokemon_by_type", arg |-> type_name]
           /\ response' = get_pokemon_by_type(disk, type_name)
    /\ UNCHANGED << disk, db, pc, rerun, fetchVars, raw, meta, loopVars, histVars, sqlError,
                    failed, done, envVars >>

Next ==
    \/ Connect
    \/ StartWithoutConnection
    \/ Start
    \/ Pragma
    \/ FetchPage
    \/ FetchFails
    \/ BuildMeta
    \/ Step2Select
    \/ Nullify
    \/ Delete
    \/ Update
    \/ Step3Select
    \/ Step4Select
    \/ Remap
    \/ DeleteDuplicates
    \/ Commit
    \/ StorageError
    \/ OtherError
    \/ GetPokemonByType

Spec == Init /\ [][Next]_vars

\* ------------------------------------------------------------------------
\* The start of clean_database up to tables_meta: the three calls of
\* _fetch_all_pokeapi_resources. requests.get has a timeout, so that a
\* request pending is answered or fails.
\* ------------------------------------------------------------------------

InitFetch ==
    /\ disk \in { CleanStore, EmptyStore } \cup Dirtied(CleanStore)
    /\ dbFile \in {"ok", "missing", "unopenable"}
    /\ Fresh

\* The outcomes of one pass of "while url"
Request == FetchPage \/ FetchFails \/ OtherError

NextFetch ==
    \/ Connect
    \/ StartWithoutConnection
    \/ Start
    \/ Pragma
    \/ FetchPage
    \/ FetchFails
    \/ OtherError
    \/ BuildMeta

SpecFetch == InitFetch /\ [][NextFetch]_vars /\ WF_vars(Request)

\* ------------------------------------------------------------------------
\* The helpers of clean_database called on their own: the edit distance of
\* two strings, and the fuzzy scan of a reference map for one stored name
\* ------------------------------------------------------------------------

MaxLen == 3

MaxEntries == 3

\* The letters of the strings the distance is called with
Letters == {"a", "b"}

Words(n) == UNION { [1..k -> Letters] : k \in 0..n }

\* The reference names the maps are built from
EntryPool ==
    { << "a", "b" >>, << "a", "c" >>, << "b" >>,
      << "a", "b", "-", "d" >>, << "a", "b", "c", "d" >> }

\* The lists of at most n distinct names of S, in every order
RECURSIVE Arrangements(_, _)
Arrangements(S, n) ==
    IF n = 0 THEN { << >> }
    ELSE LET shorter == Arrangements(S, n - 1)
         IN  shorter \cup { Append(l, x) : l \in { m \in shorter : Len(m) = n - 1 },
                                            x \in S }

RawLists(n) == { l \in Arrangements(EntryPool, n) : \A i, j \in DOMAIN l : l[i] = l[j] => i = j }

\* The stored names the scan is called for
StoredNames ==
    { << "a", "b", "c" >>, << "A" >>, << "a", "-", "d" >>, << "c", "c", "c", "c" >> }

InitHelpers ==
    /\ disk = CleanStore
    /\ dbFile = "ok"
    /\ Fresh

\* levenshtein_distance(s1, s2)
CallDistance ==
    /\ call = NoCall
    /\ \E s1 \in Words(MaxLen), s2 \in Words(MaxLen) :
           /\ call' = [fn |-> "levenshtein_distance", args |-> << s1, s2 >>]
           /\ result' = levenshtein_distance(s1, s2)
    /\ UNCHANGED << disk, db, pc, rerun, fetchVars, raw, meta, loopVars, histVars, sqlError,
                    failed, done, dbFile, conn, calls, endpointVars >>

\* The scan of valid_map for a stored name that is no key of it: min_distance
\* and proposed_new_name after the loop over valid_map.items()
CallScan ==
    /\ call = NoCall
    /\ \E current_name_db \in StoredNames, raw_names \in RawLists(MaxEntries) :
           LET valid_map == ValidMap(raw_names)
               key == normalize_string(current_name_db)
           IN  /\ key \notin DictKeys(valid_map)
               /\ call' = [fn |-> "scan", args |-> << current_name_db, valid_map >>]
               /\ result' = FuzzyScan([min_distance |-> Infinite,
                                       proposed |-> to_title_case(current_name_db)],
                                      key, valid_map, 1)
    /\ UNCHANGED << disk, db, pc, rerun, fetchVars, raw, meta, loopVars, histVars, sqlError,
                    failed, done, dbFile, conn, calls, endpointVars >>

\* The stored names step 2 is called for, some of them keys of the map in
\* another case or with other separators
RowNames ==
    StoredNames \cup { << "A", "B" >>, << "A", "b" >>, << "a", "-", "b" >>,
                        << "a", "b", "d" >>, << "A", "b", " ", "D" >>, << "b" >> }

\* The table pokemon with the one row (1, current_name_db)
OneRowStore(current_name_db) == [EmptyStore EXCEPT !.rows["pokemon"] = 1 :> current_name_db]

\* Step 2 for a table of one row that is not junk: proposed_new_name, the
\* number of distances computed, and the updates collected
CallStep2 ==
    /\ call = NoCall
    /\ \E current_name_db \in RowNames, raw_names \in RawLists(MaxEntries) :
           LET m == [valid_map |-> ValidMap(raw_names),
                     original_valid_set |-> OriginalValidSet(raw_names),
                     threshold |-> Threshold]
           IN  /\ ~IsJunk(current_name_db)
               /\ call' = [fn |-> "step2", args |-> << current_name_db, m.valid_map >>]
               /\ result' = [proposed |-> ProposedName(current_name_db, m.valid_map, m.threshold),
                             distances |-> DistanceCalls(current_name_db, m.valid_map),
                             updates |-> Step2Updates(OneRowStore(current_name_db), "pokemon", m)]
    /\ UNCHANGED << disk, db, pc, rerun, fetchVars, raw, meta, loopVars, histVars, sqlError,
                    failed, done, dbFile, conn, calls, endpointVars >>

\* The characters of the strings the normalizer is called with: letters
\* of ASCII in both cases, a digit, the hyphen, the space, and the letters
\* outside ASCII
TitleAlphabet == { "a", "B", "1", "-", " " } \cup OtherSet

TitleInputs(n) == UNION { [1..k -> TitleAlphabet] : k \in 0..n }

\* to_title_case(x), applied once and twice, and normalize_string before
\* and after it
CallTitle ==
    /\ call = NoCall
    /\ \E x \in TitleInputs(MaxLen) :
           LET once == to_title_case(x)
           IN  /\ call' = [fn |-> "to_title_case", args |-> << x >>]
               /\ result' = [once |-> once,
                             twice |-> to_title_case(once),
                             key |-> normalize_string(x),
                             keyOfOnce |-> normalize_string(once)]
    /\ UNCHANGED << disk, db, pc, rerun, fetchVars, raw, meta, loopVars, histVars, sqlError,
                    failed, done, dbFile, conn, calls, endpointVars >>

NextHelpers ==
    \/ CallDistance
    \/ CallScan
    \/ CallStep2
    \/ CallTitle

SpecHelpers == InitHelpers /\ [][NextHelpers]_vars

\* ------------------------------------------------------------------------
\* POST /pokemon/create/{pokemon_name}: one action per request; the handler
\* has one connection and one transaction, committed or rolled back
\* ------------------------------------------------------------------------

MaxCalls == 2

\* What https://pokeapi.co/api/v2/pokemon/{name} holds, by name
PokeApiPokemon ==
    << "m", "e", "w" >> :>
        [name |-> << "m", "e", "w" >>,
         types |-> << << "f", "i", "r", "e" >> >>,
         abilities |-> << << "b", "l", "a", "z", "e" >> >>]
    @@ << "m", "u", "k" >> :>
        [name |-> << "m", "u", "k" >>,
         types |-> << << "w", "a", "t", "e", "r" >>, << "i", "c", "e" >> >>,
         abilities |-> << << "b", "l", "a", "z", "e" >>, << "l", "e", "v", "i", "t", "a", "t", "e" >> >>]
    @@ << "h", "o", "-", "o", "h" >> :>
        [name |-> << "h", "o", "-", "o", "h" >>,
         types |-> << << "f", "i", "r", "e" >>, << "i", "c", "e" >> >>,
         abilities |-> << << "r", "u", "n", "-", "a", "w", "a", "y" >> >>]

\* The path parameter pokemon_name
CreateNames ==
    { << "M", "e", "w" >>, << "m", "u", "k" >>, << "h", "o", "-", "o", "h" >>, << "z", "z" >> }

\* What requests.get(pokeapi_url) and raise_for_status() come to: a payload,
\* a 404 or a 5xx answer (HTTPError), or no answer (ConnectionError, Timeout)
Upstream(name) ==
    (IF name \in DOMAIN PokeApiPokemon THEN { "ok" } ELSE { "not_found" })
    \cup { "server_error", "unreachable" }

\* The exception the handler "except requests.exceptions.RequestException"
\* ends with: response is unbound when requests.get itself raised
LookupHandler(upstream) ==
    IF upstream = "unreachable" THEN [exc |-> "UnboundLocalError", status_code |-> 0]
    ELSE IF upstream = "not_found" THEN [exc |-> "HTTPException", status_code |-> 404]
    ELSE [exc |-> "HTTPException", status_code |-> 500]

\* "except sqlite3.Error" and "except Exception" of the endpoint: both
\* end with HTTPException(status_code=500), whatever was raised
OuterHandler(exception) == [status |-> 500, body |-> {}]

\* cursor.lastrowid after an INSERT into a table whose row ids are ids
LastRowId(ids) == IF ids = {} THEN 1 ELSE (CHOOSE x \in ids : \A y \in ids : y <= x) + 1

\* Faulty variant of the lookup: WHERE name = ?
SelectIdByExactName(d, tt, name) ==
    { id \in DOMAIN d.rows[tt] : d.rows[tt][id] = name }

\* SELECT id FROM <tt> WHERE LOWER(name) = LOWER(?)
SelectIdByName(d, tt, name) ==
    { id \in DOMAIN d.rows[tt] : LowerStr(d.rows[tt][id]) = LowerStr(name) }

\* fetchone(): the row with the lowest id, of a scan in id order
FetchOne(ids) == CHOOSE x \in ids : \A y \in ids : x <= y

\* Get or create a row of types, abilities or trainers: the dataset and the id
GetOrCreate(d, tt, name) ==
    LET found == SelectIdByName(d, tt, name)
        id == LastRowId(DOMAIN d.rows[tt])
    IN  IF found # {} THEN [d |-> d, id |-> FetchOne(found)]
        ELSE [d |-> [d EXCEPT !.rows[tt] = @ @@ (id :> name)], id |-> id]

\* for ability_name_api in abilities_api: ability_ids_local
RECURSIVE GetOrCreateAbilities(_, _, _)
GetOrCreateAbilities(d, abilities_api, ability_ids_local) ==
    IF abilities_api = << >> THEN [d |-> d, ids |-> ability_ids_local]
    ELSE LET r == GetOrCreate(d, "abilities", Head(abilities_api))
         IN  GetOrCreateAbilities(r.d, Tail(abilities_api), Append(ability_ids_local, r.id))

\* Step 5: UPDATE the types of the pokemon row, or INSERT the row
GetOrCreatePokemon(d, pokemon_name_api, type1_id, type2_id) ==
    LET found == SelectIdByName(d, "pokemon", pokemon_name_api)
        id == LastRowId(DOMAIN d.rows["pokemon"])
    IN  IF found # {}
        THEN [d |-> [d EXCEPT !.fk[1][FetchOne(found)] = type1_id,
                              !.fk[2][FetchOne(found)] = type2_id],
              id |-> FetchOne(found)]
        ELSE [d |-> [d EXCEPT !.rows["pokemon"] = @ @@ (id :> pokemon_name_api),
                              !.fk[1] = @ @@ (id :> type1_id),
                              !.fk[2] = @ @@ (id :> type2_id)],
              id |-> id]

\* Step 6: the trainer picked by ORDER BY RANDOM() LIMIT 1, or "New Trainer"
AssignTrainer(d, pick) ==
    IF DOMAIN d.rows["trainers"] # {} THEN [d |-> d, id |-> pick]
    ELSE GetOrCreate(d, "trainers", << "N", "e", "w", " ", "T", "r", "a", "i", "n", "e", "r" >>)

\* SELECT id FROM trainer_pokemon_abilities WHERE trainer_id = ? AND
\* pokemon_id = ? AND ability_id = ?
SelectAssociation(d, trainer_id, pokemon_id, ab_id) ==
    { r \in d.assoc : d.fk[4][r] = trainer_id /\ d.fk[3][r] = pokemon_id /\ d.fk[5][r] = ab_id }

\* Step 7: for ab_id in ability_ids_local: tpa_ids
RECURSIVE InsertAssociations(_, _, _, _, _)
InsertAssociations(d, trainer_id, pokemon_id, ability_ids_local, tpa_ids) ==
    IF ability_ids_local = << >> THEN [d |-> d, ids |-> tpa_ids]
    ELSE LET ab_id == Head(ability_ids_local)
             existing == SelectAssociation(d, trainer_id, pokemon_id, ab_id)
             r == LastRowId(d.assoc)
         IN  IF existing # {}
             THEN InsertAssociations(d, trainer_id, pokemon_id, Tail(ability_ids_local),
                                     Append(tpa_ids, FetchOne(existing)))
             ELSE InsertAssociations([d EXCEPT !.assoc = @ \cup {r},
                                               !.fk[3] = @ @@ (r :> pokemon_id),
                                               !.fk[4] = @ @@ (r :> trainer_id),
                                               !.fk[5] = @ @@ (r :> ab_id)],
                                     trainer_id, pokemon_id, Tail(ability_ids_local),
                                     Append(tpa_ids, r))

\* Steps 3 to 7 on the payload poke_data, with the trainer pick
StoreRecord(d, poke_data, pick) ==
    LET types_api == [i \in DOMAIN poke_data.types |-> to_title_case(poke_data.types[i])]
        abilities_api == [i \in DOMAIN poke_data.abilities |-> to_title_case(poke_data.abilities[i])]
        t1 == IF types_api # << >> THEN GetOrCreate(d, "types", types_api[1])
              ELSE [d |-> d, id |-> NULL]
        t2 == IF Len(types_api) > 1 THEN GetOrCreate(t1.d, "types", types_api[2])
              ELSE [d |-> t1.d, id |-> NULL]
        ab == GetOrCreateAbilities(t2.d, abilities_api, << >>)
        pk == GetOrCreatePokemon(ab.d, to_title_case(poke_data.name), t1.id, t2.id)
        tr == AssignTrainer(pk.d, pick)
    IN  InsertAssociations(tr.d, tr.id, pk.id, ab.ids, << >>)

\* A statement of steps 3 to 7 names a column or a table the dataset lacks
\* (sqlite3.OperationalError)
LacksSchema(d, poke_data) ==
    \/ d.absent \cap {1, 2} # {}
    \/ (3 \in d.absent /\ poke_data.abilities # << >>)

\* create_pokemon_record: the dataset committed and the answer
create_pokemon_record(d, file, pokemon_name, upstream, pick, storage) ==
    IF connect_db(file) = None
    THEN [d |-> d, response |-> OuterHandler([exc |-> "HTTPException", status_code |-> 500])]
    ELSE IF upstream # "ok"
    THEN [d |-> d, response |-> OuterHandler(LookupHandler(upstream))]
    ELSE LET poke_data == PokeApiPokemon[LowerStr(pokemon_name)]
         IN  IF storage = "fails" \/ LacksSchema(d, poke_data)
             THEN [d |-> d, response |-> OuterHandler([exc |-> "sqlite3.Error", status_code |-> 0])]
             ELSE LET r == StoreRecord(d, poke_data, pick)
                  IN  [d |-> r.d, response |-> [status |-> 200, body |-> Range(r.ids)]]

\* The trainers ORDER BY RANDOM() LIMIT 1 may pick (NULL: there is none)
TrainerPicks(d) == IF DOMAIN d.rows["trainers"] = {} THEN { NULL } ELSE DOMAIN d.rows["trainers"]

InitCreate ==
    /\ disk \in { CleanStore, EmptyStore } \cup Dirtied(CleanStore)
    /\ dbFile \in {"ok", "missing", "unopenable"}
    /\ Fresh

\* One request to the endpoint, from the call to the answer
CreatePokemonRecord ==
    /\ calls < MaxCalls
    /\ \E pokemon_name \in CreateNames :
       \E upstream \in Upstream(LowerStr(pokemon_name)) :
       \E pick \in TrainerPicks(disk) :
       \E storage \in { "works", "fails" } :
           LET r == create_pokemon_record(disk, dbFile, pokemon_name, upstream, pick, storage)
           IN  /\ disk' = r.d
               /\ db' = r.d
               /\ request' = [endpoint |-> "create", arg |-> pokemon_name]
               /\ response' = r.response
               /\ call' = IF connect_db(dbFile) = None THEN NoCall
                          ELSE [fn |-> "requests.get", args |-> << LowerStr(pokemon_name), upstream >>]
    /\ calls' = calls + 1
    /\ UNCHANGED << pc, rerun, fetchVars, raw, meta, loopVars, histVars, sqlError,
                    failed, done, dbFile, conn, result >>

NextCreate == CreatePokemonRecord

SpecCreate == InitCreate /\ [][NextCreate]_vars

\* ------------------------------------------------------------------------
\* Properties
\* ------------------------------------------------------------------------

\* The table an edge references
RefTable(k) == fk_relationships[k].ref

\* The cell (edge k, dependent row r) of d holds null or the id of a row
CellResolves(d, k, r) == d.fk[k][r] = NULL \/ d.fk[k][r] \in DOMAIN d.rows[RefTable(k)]

\* Every non-null foreign key value of d is the id of a row of the referenced table
RefIntegrity(d) == \A k \in EdgeIds : \A r \in DOMAIN d.fk[k] : CellResolves(d, k, r)

\* The run is between its first statement and its end
Running == pc \notin {"Idle", "Connected", "Returned", "Committed", "RolledBack", "Raised"}

\* Some surviving dependent row referenced, when the run started, a row
\* that the run has deleted
DeletedWhileReferenced ==
    \E k \in EdgeIds : \E r \in DOMAIN db.fk[k] :
        /\ pre.fk[k][r] \in DOMAIN pre.rows[RefTable(k)]
        /\ pre.fk[k][r] \notin DOMAIN db.rows[RefTable(k)]

\* C1, as claimed: after a run that commits, every non-null value of every
\* dependent column of fk_relationships is the id of a row that exists in
\* the referenced table.
C1_IntegrityAfterCommit == pc = "Committed" => RefIntegrity(db)

\* C1, amended: after a run that commits, every non-null value of every
\* dependent column is the id of a row that exists in the referenced table,
\* unless the cell held that value, the id of no row, when the run started.
C1_NoNewDanglingAfterCommit ==
    pc = "Committed" =>
        \A k \in EdgeIds : \A r \in DOMAIN db.fk[k] :
            \/ CellResolves(db, k, r)
            \/ /\ pre.fk[k][r] = db.fk[k][r]
               /\ ~CellResolves(pre, k, r)

C1_Witness == pc = "Committed" /\ RefIntegrity(pre) /\ DeletedWhileReferenced

\* C2: after a run that commits, no entity table holds two rows whose names
\* are equal when compared case-insensitively.
C2_NoDuplicatesAfterCommit ==
    pc = "Committed" =>
        \A tt \in TableSet : \A i, j \in DOMAIN db.rows[tt] :
            i # j => LowerStr(db.rows[tt][i]) # LowerStr(db.rows[tt][j])

\* Step 4 found two rows of one table named alike, and one of them is left
C2_Witness ==
    /\ pc = "Committed"
    /\ \E tt \in TableSet : \E i, j \in DOMAIN p4.rows[tt] :
           /\ i # j
           /\ LowerStr(p4.rows[tt][i]) = LowerStr(p4.rows[tt][j])
           /\ DOMAIN db.rows[tt] # {}

\* Step 3 is done with table number i
Step3DoneFor(i) == pc = "Committed" \/ step = 4 \/ (step = 3 /\ tix > i)

\* C3: once step 3 is done with a table, and so after a run that commits,
\* the name of every row left in it is a member of the category's
\* original_valid_set: the rows step 2 left with another name are deleted.
C3_SurvivorsAreValid ==
    \A i \in DOMAIN Tables :
        Step3DoneFor(i) =>
            \A id \in DOMAIN db.rows[Tables[i]] :
                db.rows[Tables[i]][id] \in meta[Tables[i]].original_valid_set

\* A table kept a row and lost one for its name, which step 2 had left invalid
C3_Witness ==
    /\ pc = "Committed"
    /\ \E tt \in TableSet :
           /\ DOMAIN db.rows[tt] # {}
           /\ \E id \in (DOMAIN pre.rows[tt]) \ (DOMAIN db.rows[tt]) :
                  /\ ~IsJunk(pre.rows[tt][id])
                  /\ ProposedName(pre.rows[tt][id], meta[tt].valid_map, Threshold)
                        \notin meta[tt].original_valid_set

\* C4, as claimed: when a statement of the run has raised sqlite3.Error, the
\* run does not commit and the dataset is the one the run started with.
C4_AnyStorageErrorRollsBack ==
    sqlError # "none" => pc # "Committed" /\ disk = pre

\* C4, amended: when a statement of the run has raised a sqlite3.Error other
\* than the "no such column" / "no such table" error that an FK cascade
\* passes over, the run has rolled back and not committed: the connection and
\* the committed dataset hold what they held when the run started.
C4_FatalStorageErrorRollsBack ==
    sqlError = "fatal" => pc = "RolledBack" /\ db = pre /\ disk = pre

C4_Witness == sqlError = "fatal" /\ pc = "RolledBack" /\ lostWork /\ db = pre

\* C5: a run that follows a run that committed, and has the same reference
\* vocabularies, changes nothing: at no statement does the dataset it sees
\* differ from the one it started with, and its commit leaves it as it was.
C5_SecondRunChangesNothing ==
    (rerun /\ raw = prevRaw) => db = pre /\ (pc = "Committed" => disk = pre)

\* The second run committed over a dataset with rows and references left
C5_Witness ==
    /\ rerun /\ pc = "Committed" /\ raw = prevRaw
    /\ \A tt \in TableSet : DOMAIN db.rows[tt] # {}
    /\ \E k \in EdgeIds : \E r \in DOMAIN db.fk[k] : db.fk[k][r] # NULL

\* C6: starting from a dataset whose non-null foreign keys all reference
\* existing rows, after every single statement of the run every non-null
\* foreign key still references an existing row: no DELETE is issued before
\* the cascade for the row is complete.
C6_NoTransientDangling == RefIntegrity(pre) => RefIntegrity(db)

\* Mid-run, a row that was referenced has been deleted
C6_Witness == Running /\ RefIntegrity(pre) /\ DeletedWhileReferenced

\* C7, as claimed: a run that has ended has ended committed or rolled back,
\* and when it has not committed the dataset is the one it started with.
C7_EveryRunCommitsOrRollsBack ==
    pc \in {"Committed", "RolledBack", "Raised"} =>
        /\ pc \in {"Committed", "RolledBack"}
        /\ pc # "Committed" => db = pre

\* The smallest id of a set of ids
MinId(S) == CHOOSE i \in S : \A j \in S : i <= j

\* The rows of table tt that step 4 found named like row id
NamedAlike(tt, id) ==
    { j \in DOMAIN p4.rows[tt] : LowerStr(p4.rows[tt][j]) = LowerStr(p4.rows[tt][id]) }

\* Step 4 is done with table number i
Step4DoneFor(i) == pc \in {"Commit", "Committed"} \/ (step = 4 /\ tix > i)

\* C8: once step 4 is done with a table, of every group of two or more rows
\* it found named alike exactly the row with the smallest id is left, and
\* every foreign key that held the id of a removed row of the group holds
\* the smallest id; and at no statement of step 4 does a foreign key hold
\* the id of a row step 4 has deleted.
C8_DeduplicationKeepsMinAndRemaps ==
    /\ \A i \in DOMAIN Tables :
           Step4DoneFor(i) =>
               \A id \in DOMAIN p4.rows[Tables[i]] :
                   LET group == NamedAlike(Tables[i], id)
                   IN  Cardinality(group) > 1 =>
                           /\ group \cap DOMAIN db.rows[Tables[i]] = {MinId(group)}
                           /\ \A k \in EdgeIds : \A r \in DOMAIN db.fk[k] :
                                  (RefTable(k) = Tables[i] /\ p4.fk[k][r] \in group)
                                      => db.fk[k][r] = MinId(group)
    /\ (step = 4 \/ pc = "Committed") =>
           \A k \in EdgeIds : \A r \in DOMAIN db.fk[k] :
               db.fk[k][r] \in DOMAIN p4.rows[RefTable(k)]
                   => db.fk[k][r] \in DOMAIN db.rows[RefTable(k)]

\* A committed run merged a group whose removed row was referenced
C8_Witness ==
    /\ pc = "Committed"
    /\ \E k \in EdgeIds : \E r \in DOMAIN db.fk[k] :
           /\ p4.fk[k][r] \in DOMAIN p4.rows[RefTable(k)]
           /\ p4.fk[k][r] \notin DOMAIN db.rows[RefTable(k)]
           /\ db.fk[k][r] # p4.fk[k][r]
           /\ db.fk[k][r] \in NamedAlike(RefTable(k), p4.fk[k][r])

\* The association table's columns
AssocEdges == { k \in EdgeIds : fk_relationships[k].tbl = "trainer_pokemon_abilities" }

\* C9: at every statement of a run and after it, the association table has
\* the rows it had when the run started: none is added, none is removed;
\* only the values of its foreign key columns change.
C9_AssociationRowsKept ==
    /\ db.assoc = pre.assoc
    /\ \A k \in AssocEdges : DOMAIN db.fk[k] = DOMAIN pre.fk[k]

\* A committed run rewrote a foreign key of an association row
C9_Witness ==
    /\ pc = "Committed"
    /\ \E k \in AssocEdges : \E r \in db.assoc : db.fk[k][r] # pre.fk[k][r]

\* Step 2 is done with table number i, and step 3 has not begun to delete
Step2JustDoneFor(i) == Running /\ ((step = 2 /\ tix > i) \/ (pc = "Step3Select" /\ tix = 1))

\* The least distance from key to a key of valid_map
MinDistance(key, valid_map) ==
    LET ds == { levenshtein_distance(key, valid_map[n].key) : n \in DOMAIN valid_map }
    IN  CHOOSE d \in ds : \A o \in ds : d <= o

\* The display forms of the entries of valid_map at the least distance from key
NearestDisplays(key, valid_map) ==
    { valid_map[n].display : n \in { o \in DOMAIN valid_map :
          levenshtein_distance(key, valid_map[o].key) = MinDistance(key, valid_map) } }

\* Row id of table tt had, when the run started, a name that is not junk
\* and whose comparison key is no key of valid_map
FuzzyCase(tt, id) ==
    /\ ~IsJunk(pre.rows[tt][id])
    /\ normalize_string(pre.rows[tt][id]) \notin DictKeys(meta[tt].valid_map)

\* The fuzzy case where an entry of valid_map is within the threshold
WithinThreshold(tt, id) ==
    /\ meta[tt].valid_map # << >>
    /\ MinDistance(normalize_string(pre.rows[tt][id]), meta[tt].valid_map) <= Threshold

\* C10: when step 2 is done with a table, a row whose name was not junk and
\* whose comparison key is no key of the reference map carries the display
\* form of an entry at the least edit distance from its key if that distance
\* is at most the threshold, and otherwise to_title_case of its stored name,
\* which is no such display form.
C10_FuzzyWithinThreshold ==
    \A i \in DOMAIN Tables :
        Step2JustDoneFor(i) =>
            \A id \in DOMAIN pre.rows[Tables[i]] :
                FuzzyCase(Tables[i], id) =>
                    LET tt   == Tables[i]
                        best == NearestDisplays(normalize_string(pre.rows[tt][id]),
                                                meta[tt].valid_map)
                    IN  /\ id \in DOMAIN db.rows[tt]
                        /\ IF WithinThreshold(tt, id)
                           THEN /\ db.rows[tt][id] \in best
                                /\ db.rows[tt][id] # pre.rows[tt][id]
                           ELSE /\ db.rows[tt][id] = to_title_case(pre.rows[tt][id])
                                /\ db.rows[tt][id] \notin best

\* Step 2 is done with the tables: a row was renamed to an entry whose key
\* is at distance 2, the threshold, from the row's key
C10_Witness ==
    /\ pc = "Step3Select" /\ tix = 1
    /\ \E tt \in TableSet : \E id \in DOMAIN pre.rows[tt] :
           /\ FuzzyCase(tt, id) /\ WithinThreshold(tt, id)
           /\ MinDistance(normalize_string(pre.rows[tt][id]), meta[tt].valid_map) = Threshold
           /\ db.rows[tt][id] # pre.rows[tt][id]

\* The characters of the model's alphabet that are no word characters
NonWordChars == {" ", "-"}

\* A name that is empty, white space only, or non-word characters only
NameIsJunk(name) == \A i \in DOMAIN name : name[i] \in NonWordChars

\* Phase 1 (step 2) is done with table number i
Phase1DoneFor(i) == pc \in {"Commit", "Committed"} \/ step > 2 \/ (step = 2 /\ tix > i)

\* C11: once phase 1 is done with a table, no row is left in it whose name
\* was empty, white space only or non-word characters only; such a row is
\* never among the rows phase 1 proposes a name for; and when phase 1 issues
\* a DELETE, the row is such a row and no foreign key holds its id.
C11_JunkRemovedInPhase1 ==
    /\ \A i \in DOMAIN Tables :
           Phase1DoneFor(i) =>
               \A id \in DOMAIN pre.rows[Tables[i]] :
                   NameIsJunk(pre.rows[Tables[i]][id]) => id \notin DOMAIN db.rows[Tables[i]]
    /\ (step = 2 /\ pc \in {"Nullify", "Delete", "Update"}) =>
           \A n \in DOMAIN updates : ~NameIsJunk(pre.rows[Tables[tix]][updates[n].id])
    /\ (step = 2 /\ pc = "Delete") =>
           /\ NameIsJunk(pre.rows[Tables[tix]][Head(work)])
           /\ \A k \in EdgeIds : \A r \in DOMAIN db.fk[k] :
                  RefTable(k) = Tables[tix] => db.fk[k][r] # Head(work)

\* Phase 1 is about to delete a junk row that a foreign key referenced
C11_Witness ==
    /\ step = 2 /\ pc = "Delete"
    /\ NameIsJunk(pre.rows[Tables[tix]][Head(work)])
    /\ \E k \in EdgeIds : \E r \in DOMAIN pre.fk[k] :
           RefTable(k) = Tables[tix] /\ pre.fk[k][r] = Head(work)

\* The reference data of every table when no request fails: an entry, in
\* dictionary order, and a display name for every name of every page
WholeMeta ==
    [pokemon |->
        [valid_map |-> << [key |-> << "h", "o", "o", "h" >>, display |-> << "H", "o", " ", "O", "h" >>],
                          [key |-> << "m", "e", "w" >>, display |-> << "M", "e", "w" >>],
                          [key |-> << "m", "u", "k" >>, display |-> << "M", "u", "k" >>] >>,
         original_valid_set |-> { << "H", "o", " ", "O", "h" >>, << "M", "e", "w" >>, << "M", "u", "k" >> }],
     types |->
        [valid_map |-> << [key |-> << "f", "i", "r", "e" >>, display |-> << "F", "i", "r", "e" >>],
                          [key |-> << "i", "c", "e" >>, display |-> << "I", "c", "e" >>] >>,
         original_valid_set |-> { << "F", "i", "r", "e" >>, << "I", "c", "e" >> }],
     abilities |->
        [valid_map |-> << [key |-> << "b", "l", "a", "z", "e" >>, display |-> << "B", "l", "a", "z", "e" >>],
                          [key |-> << "r", "u", "n", "a", "w", "a", "y" >>,
                           display |-> << "R", "u", "n", " ", "A", "w", "a", "y" >>] >>,
         original_valid_set |-> { << "B", "l", "a", "z", "e" >>, << "R", "u", "n", " ", "A", "w", "a", "y" >> }],
     trainers |->
        [valid_map |-> << [key |-> << "a", "s", "h", "k", "e", "t", "c", "h", "u", "m" >>,
                           display |-> << "A", "s", "h", " ", "K", "e", "t", "c", "h", "u", "m" >>],
                          [key |-> << "b", "r", "o", "c", "k" >>, display |-> << "B", "r", "o", "c", "k" >>],
                          [key |-> << "g", "a", "r", "y", "o", "a", "k" >>,
                           display |-> << "G", "a", "r", "y", " ", "O", "a", "k" >>],
                          [key |-> << "p", "r", "o", "f", "e", "s", "s", "o", "r", "o", "a", "k" >>,
                           display |-> << "P", "r", "o", "f", "e", "s", "s", "o", "r", " ", "O", "a", "k" >>],
                          [key |-> << "m", "i", "s", "t", "y" >>, display |-> << "M", "i", "s", "t", "y" >>] >>,
         original_valid_set |-> { << "A", "s", "h", " ", "K", "e", "t", "c", "h", "u", "m" >>,
                                  << "B", "r", "o", "c", "k" >>,
                                  << "G", "a", "r", "y", " ", "O", "a", "k" >>,
                                  << "P", "r", "o", "f", "e", "s", "s", "o", "r", " ", "O", "a", "k" >>,
                                  << "M", "i", "s", "t", "y" >> }]]

\* The reference data of table tt are those of w
MetaIs(tt, w) ==
    /\ meta[tt].valid_map = w.valid_map
    /\ meta[tt].original_valid_set = w.original_valid_set

\* tables_meta is built and the run is in, or has committed, steps 2-4
MetaBuilt == pc = "Committed" \/ (Running /\ pc \notin {"Pragma", "Fetch", "BuildMeta"})

\* C12: once the reference data are built, a category one of whose page
\* requests failed (the first or a later one) has an empty reference map
\* and an empty validity set, every other category has the data of all its
\* pages, the trainers theirs; and the failure does not end the run: a run
\* is rolled back only for a storage error.
C12_FetchFailureIsNotFatal ==
    /\ MetaBuilt =>
           /\ \A category \in Range(FetchOrder) :
                  IF category \in failed
                  THEN meta[category].valid_map = << >> /\ meta[category].original_valid_set = {}
                  ELSE MetaIs(category, WholeMeta[category])
           /\ MetaIs("trainers", WholeMeta["trainers"])
    /\ pc = "RolledBack" => sqlError = "fatal"
    /\ failed # {} => pc \notin {"Idle", "Connected", "Returned"}

\* A run committed although the fetch of one category failed, with the
\* data of another category whole
C12_Witness ==
    /\ pc = "Committed" /\ sqlError = "none"
    /\ failed # {} /\ failed # Range(FetchOrder)
    /\ \E category \in Range(FetchOrder) \ failed : meta[category].valid_map # << >>
\* Phase 2 (step 3) is done with table number i
Phase2DoneFor(i) == pc \in {"Commit", "Committed"} \/ step > 3 \/ (step = 3 /\ tix > i)

\* C13 as stated: when the fetch for a category failed, the run changes the
\* stored name of no row of the category's table, and phase 2 removes every
\* row of it that is not canonical (none is: the validity set is empty).
C13_FailedCategoryKeepsNames ==
    \A i \in DOMAIN Tables :
        Tables[i] \in failed =>
            /\ \A id \in DOMAIN db.rows[Tables[i]] :
                   db.rows[Tables[i]][id] = pre.rows[Tables[i]][id]
            /\ Phase2DoneFor(i) => DOMAIN db.rows[Tables[i]] = {}

\* C13 (amended): when the fetch for a category failed, phase 1 matches no
\* row of the category's table against a reference name: it changes a
\* stored name only to its own title-cased form, and once it is done every
\* surviving row carries the title-cased form of the name it had; phase 2
\* then removes every row of the table.
C13_FailedCategoryOnlyCased ==
    \A i \in DOMAIN Tables :
        Tables[i] \in failed =>
            /\ \A id \in DOMAIN db.rows[Tables[i]] :
                   IF Phase1DoneFor(i)
                   THEN db.rows[Tables[i]][id] = to_title_case(pre.rows[Tables[i]][id])
                   ELSE \/ db.rows[Tables[i]][id] = pre.rows[Tables[i]][id]
                        \/ db.rows[Tables[i]][id] = to_title_case(pre.rows[Tables[i]][id])
            /\ Phase2DoneFor(i) => DOMAIN db.rows[Tables[i]] = {}

\* Phase 1 has title-cased a row of a table whose fetch failed, and phase 2
\* has not reached the table yet
C13_Witness ==
    \E i \in DOMAIN Tables :
        /\ Tables[i] \in failed
        /\ Phase1DoneFor(i) /\ ~Phase2DoneFor(i)
        /\ \E id \in DOMAIN db.rows[Tables[i]] :
               /\ db.rows[Tables[i]][id] # pre.rows[Tables[i]][id]
               /\ db.rows[Tables[i]][id] = to_title_case(pre.rows[Tables[i]][id])
\* C18: when the dataset file is missing or cannot be opened, connect_db
\* returns None and the run never starts; and without a connection the
\* program is at no statement of clean_database, and the store, on disk
\* and as the connection would see it, is what it was.
C18_NoConnectionNoRun ==
    /\ (dbFile # "ok" /\ pc # "Idle") => conn = None
    /\ conn = None =>
           /\ pc \in {"Idle", "Connected", "Returned"}
           /\ db = disk /\ disk = pre
           /\ sqlError = "none" /\ done = {} /\ failed = {}

\* connect_db returned None for a missing or unopenable file and
\* clean_database was not entered
C18_Witness ==
    /\ dbFile \in {"missing", "unopenable"}
    /\ conn = None
    /\ pc = "Returned"
\* Step s has run to its end on every table
StepDoneForAll(s) == \A i \in DOMAIN Tables : << s, i >> \in done

\* C19: while step 4 (deduplication) is at work on any table, steps 2 and 3
\* have run to their end on all four tables; and at the commit, and after
\* it, step 4 has too. No step is recorded as done before the run reaches it.
C19_PhaseOrdering ==
    /\ (Running /\ step = 4) => (StepDoneForAll(2) /\ StepDoneForAll(3))
    /\ pc \in {"Commit", "Committed"} =>
           (StepDoneForAll(2) /\ StepDoneForAll(3) /\ StepDoneForAll(4))
    /\ (Running /\ step \in 2..4) =>
           \A e \in done : e[1] < step \/ (e[1] = step /\ e[2] < tix)
                            \/ (pc = "Commit" /\ e = << step, tix >>)

\* Step 4 is remapping the references to a duplicate of the first table
\* after steps 2 and 3 ran on all four tables
C19_Witness ==
    /\ step = 4 /\ tix = 1 /\ pc = "Remap"
    /\ StepDoneForAll(2) /\ StepDoneForAll(3)
    /\ ~ \E i \in DOMAIN Tables : << 4, i >> \in done
\* The pokemon of the dataset d one of whose type columns references a
\* type row named type_name, whatever the case of the letters
PokemonOfType(d, type_name) ==
    { d.rows["pokemon"][p] :
        p \in { q \in DOMAIN d.rows["pokemon"] :
                  \E k \in {1, 2} \ d.absent :
                      /\ d.fk[k][q] \in DOMAIN d.rows["types"]
                      /\ LowerStr(d.rows["types"][d.fk[k][q]]) = LowerStr(type_name) } }

\* C16: on a dataset a cleaning run committed, with both type columns,
\* get_pokemon_by_type answers with the name of every pokemon whose
\* type1_id or type2_id references a type row of the requested name,
\* letter case apart (no name when there is none).
C16_ByTypeIsComplete ==
    (request.endpoint = "pokemon_by_type" /\ disk.absent \cap {1, 2} = {}) =>
        /\ response.status = 200
        /\ response.body = PokemonOfType(disk, request.arg)
Max2Len(s1, s2) == IF Len(s1) < Len(s2) THEN Len(s2) ELSE Len(s1)

\* The strings one insertion, one deletion or one substitution of a
\* character away from s
OneEdit(s) ==
    { SubSeq(s, 1, i - 1) \o SubSeq(s, i + 1, Len(s)) : i \in DOMAIN s }
    \cup { [s EXCEPT ![i] = c] : i \in DOMAIN s, c \in Letters }
    \cup { SubSeq(s, 1, i) \o << c >> \o SubSeq(s, i + 1, Len(s)) : i \in 0..Len(s), c \in Letters }

\* The strings at most n such edits away from s
RECURSIVE WithinEdits(_, _)
WithinEdits(s, n) ==
    IF n = 0 THEN { s }
    ELSE LET nearer == WithinEdits(s, n - 1)
         IN  nearer \cup UNION { OneEdit(t) : t \in nearer }

\* The minimum number of edits that transform s1 into s2 (never more than
\* the length of the longer string: substitute, then insert or delete)
EditDistance(s1, s2) ==
    CHOOSE n \in 0..Max2Len(s1, s2) :
        /\ s2 \in WithinEdits(s1, n)
        /\ \A m \in 0..(n - 1) : s2 \notin WithinEdits(s1, m)

\* C14: levenshtein_distance(s1, s2) is the minimum number of insertions,
\* deletions and substitutions of one character that transform s1 into s2;
\* it is the same for (s2, s1), 0 for equal strings, and the length of the
\* other string when one is empty.
C14_DistanceIsEditDistance ==
    call.fn = "levenshtein_distance" =>
        LET s1 == call.args[1]
            s2 == call.args[2]
        IN  /\ result = EditDistance(s1, s2)
            /\ result = levenshtein_distance(s2, s1)
            /\ s1 = s2 => result = 0
            /\ s1 = << >> => result = Len(s2)
            /\ s2 = << >> => result = Len(s1)

\* The distance of two different strings of the same length that takes a
\* substitution and an insertion or deletion elsewhere
C14_Witness ==
    /\ call.fn = "levenshtein_distance"
    /\ call.args[1] = << "a", "b", "b" >>
    /\ call.args[2] = << "b", "b", "a" >>
    /\ result = 2
\* The distance from the key of the stored name to the key of an entry
ScanDistance(current_name_db, entry) ==
    levenshtein_distance(normalize_string(current_name_db), entry.key)

\* The entries of valid_map at the minimum distance from the stored name
Nearest(current_name_db, valid_map) ==
    { e \in Range(valid_map) :
        \A f \in Range(valid_map) :
            ScanDistance(current_name_db, e) <= ScanDistance(current_name_db, f) }

\* C20: after the scan of a reference map that is not empty, the proposed
\* name is the display form of an entry at the minimum distance whose key
\* is no longer than the key of any other entry at that distance, in
\* whatever order the map holds its entries; min_distance is that
\* distance, and the name the row is given is the proposed one when the
\* distance is within the threshold.
C20_TieBreakPrefersShorterKey ==
    (call.fn = "scan" /\ call.args[2] # << >>) =>
        LET current_name_db == call.args[1]
            valid_map == call.args[2]
            nearest == Nearest(current_name_db, valid_map)
        IN  /\ \E e \in nearest :
                   /\ result.proposed = e.display
                   /\ result.min_distance = Finite(ScanDistance(current_name_db, e))
                   /\ \A f \in nearest : Len(e.key) <= Len(f.key)
            /\ ~DistAbove(result.min_distance, Threshold) =>
                   ProposedName(current_name_db, valid_map, Threshold) = result.proposed

\* Three entries share the minimum distance, within the threshold, and the
\* one with the shortest key is scanned last
C20_Witness ==
    /\ call.fn = "scan"
    /\ Len(call.args[2]) = 3
    /\ Nearest(call.args[1], call.args[2]) = Range(call.args[2])
    /\ \A i \in 1..2 : Len(call.args[2][i].key) > Len(call.args[2][3].key)
    /\ result.proposed = call.args[2][3].display
    /\ ~DistAbove(result.min_distance, Threshold)
\* C15 as stated: when the upstream lookup answers not-found the request is
\* answered with status 404, and when the upstream does not answer with
\* status 500.
C15_NotFoundIsDistinct ==
    (request.endpoint = "create" /\ call.fn = "requests.get") =>
        /\ call.args[2] = "not_found" => response.status = 404
        /\ call.args[2] = "unreachable" => response.status = 500

\* No two rows of an entity table of d have names equal but for letter case
NoCaseDuplicates(d) ==
    \A tt \in TableSet : \A i, j \in DOMAIN d.rows[tt] :
        LowerStr(d.rows[tt][i]) = LowerStr(d.rows[tt][j]) => i = j

\* The (trainer, pokemon, ability) of an association row
Triple(d, r) == << d.fk[4][r], d.fk[3][r], d.fk[5][r] >>

\* No two association rows of d have the same triple
NoRepeatedTriple(d) ==
    \A q, r \in d.assoc : Triple(d, q) = Triple(d, r) => q = r

\* C17: after any number of requests to the creation endpoint on a dataset
\* without two names equal but for case in one entity table, there are still
\* no two such names; and no request adds an association row for a triple
\* that has one: a dataset without a repeated triple stays so.
C17_GetOrCreate ==
    /\ NoCaseDuplicates(pre) => NoCaseDuplicates(disk)
    /\ NoRepeatedTriple(pre) => NoRepeatedTriple(disk)

\* Two requests were answered 200 on a dataset without case duplicates
\* whose types differ in case from the upstream names; one row was added to
\* types and none for the name that differs in case only, and the second
\* request found the association rows of the first
C17_Witness ==
    /\ calls = 2 /\ response.status = 200
    /\ NoCaseDuplicates(pre)
    /\ \E id \in DOMAIN pre.rows["types"] : pre.rows["types"][id] = << "f", "i", "r", "e" >>
    /\ \E id \in DOMAIN disk.rows["types"] \ DOMAIN pre.rows["types"] :
           disk.rows["types"][id] = << "W", "a", "t", "e", "r" >>
    /\ Cardinality(DOMAIN disk.rows["types"]) = Cardinality(DOMAIN pre.rows["types"]) + 1
    /\ response.body # {} /\ response.body \subseteq pre.assoc
\* The entries of valid_map whose key is the comparison key of the name
ExactEntries(current_name_db, valid_map) ==
    { e \in Range(valid_map) : e.key = normalize_string(current_name_db) }

\* C21: for a row that is not junk and whose comparison key is a key of the
\* reference map, the proposed name is the display form of that entry, no
\* edit distance is computed, the threshold plays no part, and the row is
\* among the updates, with that display form, exactly when its stored name
\* differs from it.
C21_ExactHit ==
    (call.fn = "step2" /\ ExactEntries(call.args[1], call.args[2]) # {}) =>
        \E e \in ExactEntries(call.args[1], call.args[2]) :
            /\ result.proposed = e.display
            /\ result.distances = 0
            /\ result.updates = IF e.display # call.args[1]
                                THEN << [id |-> 1, name |-> e.display] >>
                                ELSE << >>

\* An exact hit whose display form is neither the stored name nor its
\* title-cased form: the row is updated
C21_Witness ==
    /\ call.fn = "step2"
    /\ ExactEntries(call.args[1], call.args[2]) # {}
    /\ call.args[1] = << "a", "b", "d" >>
    /\ result.proposed = << "A", "b", " ", "D" >>
    /\ result.proposed # to_title_case(call.args[1])
    /\ Len(result.updates) = 1
\* The edges into the table of the current position whose column exists
PresentEdges == { k \in EdgeIds \ db.absent : RefTable(k) = Tables[tix] }

AllNames(category) ==
    UNION { Range(ApiPages[category][n].results) : n \in DOMAIN ApiPages[category] }

\* The call of _fetch_all_pokeapi_resources for category number i has returned
Fetched(i) == pc \in {"BuildMeta", "Step2Select"} \/ (pc = "Fetch" /\ fetchCat > i)

\* The call for category number i is in its loop
Fetching(i) == pc = "Fetch" /\ fetchCat = i

\* While a category is fetched, the page to request is a page of its chain,
\* the pages read are the pages before it, each read once, the names
\* collected are theirs, and no request for the category has failed; a call that has returned without a failed
\* request returned each name of all the pages once.
FetchInv ==
    /\ pc = "Fetch" =>
           /\ url \in DOMAIN ApiPages[FetchOrder[fetchCat]]
           /\ requested = [n \in 1..(url - 1) |-> n]
           /\ names = UNION { Range(ApiPages[FetchOrder[fetchCat]][n].results) : n \in DOMAIN requested }
           /\ FetchOrder[fetchCat] \notin failed
    /\ \A i \in DOMAIN FetchOrder :
           (Fetched(i) /\ FetchOrder[i] \notin failed) =>
               /\ Range(raw[FetchOrder[i]]) = AllNames(FetchOrder[i])
               /\ Len(raw[FetchOrder[i]]) = Cardinality(AllNames(FetchOrder[i]))

\* A pass of the loop that stays in the loop requests a later page
FetchAdvances ==
    (pc = "Fetch" /\ pc' = "Fetch" /\ fetchCat' = fetchCat) =>
        (url' > url /\ url' = ApiPages[FetchOrder[fetchCat]][url].next)

\* C23: the fetch of a category follows next from page to page, requesting
\* no page twice, collects the names of the pages read, and returns every
\* name of every page once when no request fails; after a failed request
\* the category is not requested again; and every call returns.
C23_FetchFollowsNextAndTerminates ==
    /\ []FetchInv
    /\ [][FetchAdvances]_vars
    /\ \A i \in DOMAIN FetchOrder : Fetching(i) ~> ~Fetching(i)

\* The call for pokemon read its two pages, which share a name, and returned
\* the three names
C23_Witness ==
    /\ Fetched(1) /\ "pokemon" \notin failed
    /\ Len(ApiPages["pokemon"]) = 2
    /\ Len(raw["pokemon"]) = 3

\* ------------------------------------------------------------------------
\* C24: the cleaning run only mutates and deletes entity rows. From the
\* start of a run on, the ids of each entity table, in the transaction and
\* in the file, are ids the table had when the run started (no row is
\* inserted, no id is changed); a row that is still there keeps its id and
\* differs from the row of the start in its name at most.
\* ------------------------------------------------------------------------
C24_RunOnlyMutatesAndDeletes ==
    \A tt \in TableSet :
        /\ DOMAIN db.rows[tt] \subseteq DOMAIN pre.rows[tt]
        /\ DOMAIN disk.rows[tt] \subseteq DOMAIN pre.rows[tt]

\* A run is committed in which a row was renamed and kept its id
C24_Witness ==
    /\ pc = "Committed"
    /\ \E id \in DOMAIN disk.rows["pokemon"] :
           /\ pre.rows["pokemon"][id] = << "M", "e", "w", "w" >>
           /\ disk.rows["pokemon"][id] = << "M", "e", "w" >>
    /\ DOMAIN disk.rows["pokemon"] = DOMAIN pre.rows["pokemon"]

\* ------------------------------------------------------------------------
\* C25: to_title_case is idempotent and leaves the comparison key
\* unchanged: for every string x over letters, digits, hyphens and spaces,
\* to_title_case(to_title_case(x)) = to_title_case(x) and
\* normalize_string(to_title_case(x)) = normalize_string(x).
\* ------------------------------------------------------------------------
C25_TitleCaseIdempotentKeepsKey ==
    call.fn = "to_title_case" =>
        /\ result.twice = result.once
        /\ result.keyOfOnce = result.key

\* The two halves of it, each on its own
TitleCaseIdempotent == call.fn = "to_title_case" => result.twice = result.once

TitleCaseKeepsKey == call.fn = "to_title_case" => result.keyOfOnce = result.key

\* What holds of the code: the two equations for the strings over the
\* letters of ASCII, digits, hyphens and spaces
TitleCaseOverAscii ==
    (call.fn = "to_title_case" /\ Range(call.args[1]) \cap OtherSet = {}) =>
        /\ result.twice = result.once
        /\ result.keyOfOnce = result.key

\* ------------------------------------------------------------------------
\* C26: every display name the correction phase can write is valid. Each
\* value of a category's valid_map is a member of its original_valid_set,
\* and a row step 3 is about to delete is no row that had a match in step 2
\* (its key a key of valid_map, or an entry within the threshold): the rows
\* renamed by an exact or a fuzzy match are not deleted by step 3.
\* ------------------------------------------------------------------------
DictValues(d) == { d[i].display : i \in DOMAIN d }

\* The row had a match in step 2: it was not junk and its key is a key of
\* valid_map or within the threshold of one
HadMatch(tt, id) ==
    /\ id \in DOMAIN pre.rows[tt]
    /\ ~IsJunk(pre.rows[tt][id])
    /\ \/ normalize_string(pre.rows[tt][id]) \in DictKeys(meta[tt].valid_map)
       \/ WithinThreshold(tt, id)

C26_MatchedNamesAreValid ==
    /\ \A tt \in TableSet : DictValues(meta[tt].valid_map) \subseteq meta[tt].original_valid_set
    /\ (step = 3 /\ pc \in {"Nullify", "Delete"}) => ~HadMatch(Tables[tix], Head(work))

\* Step 3 is done with the tables: a row renamed by a fuzzy match to a
\* value of valid_map is still there
C26_Witness ==
    /\ pc = "Step4Select" /\ tix = 1
    /\ \E tt \in TableSet : \E id \in DOMAIN db.rows[tt] :
           /\ HadMatch(tt, id) /\ WithinThreshold(tt, id)
           /\ normalize_string(pre.rows[tt][id]) \notin DictKeys(meta[tt].valid_map)
           /\ db.rows[tt][id] # pre.rows[tt][id]
           /\ db.rows[tt][id] \in DictValues(meta[tt].valid_map)

\* Step 3 is about to delete a row, which had no match
Step3Deleting == step = 3 /\ pc = "Delete" /\ ~HadMatch(Tables[tix], Head(work))

============================================================================
